---- MODULE Spec2Model ----
(***************************************************************************)
(* Model of the debt reconciliation program of true_accord.go: the join of *)
(* debts, payment plans and payments (normalizeData), the payment schedule *)
(* generator, the payment classifier, the balance calculator and the       *)
(* next-due-date resolver, and the run of main: the three fetches, the     *)
(* wait for their results with its timeout, and the output.                *)
(*                                                                         *)
(* Representation.                                                         *)
(*   decimal.Decimal  an integer number of thousandths (1.005 is 1005), so *)
(*                    that Round(2) has a third decimal digit to round;    *)
(*   time.Time        an integer number of hours, 0 being the zero Time;   *)
(*                    a date is midnight of its day, day * 24;             *)
(*   a date string    the one-element sequence <<day>>, "" being <<>>;     *)
(*   a pointer        a sequence of length 0 (nil) or 1 (the pointee);     *)
(*   a Go map         a TLA+ function, nil and empty being <<>>;           *)
(*   a Go slice       a sequence, the nil slice being <<>>.                *)
(***************************************************************************)
EXTENDS Integers, Sequences, FiniteSets, TLC

VARIABLES
    debts,                  \* normalizeData's debts map: id -> Debt
    paymentPlans,           \* the free plan pool, keyed by debt_id
    payments,               \* the payment list, as retrievePayments sorted it
    pending,                \* keys the range over debts has not yet produced
    pc,                     \* position in normalizeData
    debtId,                 \* normalizeData's loop variable debtId
    debt,                   \* normalizeData's loop variable debt (a copy)
    runningDate,            \* generatePaymentSchedule's runningDate
    anticipatedDebtAmount,  \* generatePaymentSchedule's anticipatedDebtAmount
    err,                    \* the error normalizeData returned
    testDebt,               \* a caller's copy  debt := debts[id]
    ret,                    \* the last method call on testDebt and its result
    fetched,                \* the wrapper each fetch sends on its channel
    tasks,                  \* where each of the three fetch goroutines is
    waitCount,              \* populateDebtHierarchy's waitCount
    timedOut,               \* populateDebtHierarchy's timedOut
    plans,                  \* populateDebtHierarchy's plans, nil or a map
    output,                 \* what main has printed
    channels,               \* per result channel: the sends begun on it and
                            \* the values received from it
    elapsed,                \* seconds since the wait loop was entered
    timer                   \* seconds since the timer of the select was made

vars == <<debts, paymentPlans, payments, pending, pc, debtId, debt,
          runningDate, anticipatedDebtAmount, err, testDebt, ret,
          fetched, tasks, waitCount, timedOut, plans, output, channels,
          elapsed, timer>>

\* the variables of main and of populateDebtHierarchy's wait for the fetches
coordVars == <<fetched, tasks, waitCount, timedOut, plans, output, channels,
               elapsed, timer>>

----------------------------------------------------------------------------
(* Bounds of the model *)

MaxPayments == 2
MaxDay == 45
\* the steps of the clock in one length of the timer
TicksPerTimer == 2

(* Program constants *)

HoursPerDay == 24
\* time.After(240 * time.Second)
TimerSeconds == 240
WeeklyDays == 7
BiweeklyDays == 14

weekly == "weekly"
biweekly == "bi_weekly"

(* Input domains *)

DebtIDs == {1}
PlanIDs == {11}
PaymentPlanIDs == {11, 12}
DebtAmounts == {500, 1000}
TargetAmounts == {0, 500, 1005}
InstallmentAmounts == {0 - 400, 0, 500}
PlanFrequencies == {"weekly", "BI_WEEKLY", "monthly"}
\* the labels paymentFrequencyAsDuration is called with
FrequencyLabels ==
    {"weekly", "WEEKLY", "Weekly", "bi_weekly", "BI_WEEKLY", "Bi_Weekly",
     "monthly", "MONTHLY", "biweekly", ""}
StartDays == {10}
PaymentAmounts == {4, 500}
PaymentDays == {9, 10, 11, 17, 24}

----------------------------------------------------------------------------
(* Library functions the program calls *)

Abs(x) == IF x < 0 THEN 0 - x ELSE x

\* decimal.Decimal.Round(2): to the nearest hundredth, halves away from zero
Round2(x) == IF x < 0 THEN 0 - (((Abs(x) + 5) \div 10) * 10)
                      ELSE ((x + 5) \div 10) * 10

\* a variant of ToLower that leaves the label as it is
ToLower_Identity(s) == s

\* strings.ToLower on the labels of the model
ToLower(s) ==
    CASE s = "WEEKLY" -> "weekly"
      [] s = "Weekly" -> "weekly"
      [] s = "BI_WEEKLY" -> "bi_weekly"
      [] s = "Bi_Weekly" -> "bi_weekly"
      [] s = "MONTHLY" -> "monthly"
      [] OTHER -> s

\* time.Parse(isoDateLayout, s): midnight of the day the string names
Parse(s) == s[1] * HoursPerDay

\* Time.Format(isoDateLayout): the day, the time of day dropped
Format(t) == << t \div HoursPerDay >>

\* Time.IsZero
IsZero(t) == t = 0

\* Time.Add
AddDuration(t, d) == t + d

\* a variant of IsPositive that takes zero for positive
IsPositive_OrZero(x) == x >= 0

\* decimal.Decimal.IsPositive
IsPositive(x) == x > 0

\* the last instant of the modelled window of dates
HorizonTime == MaxDay * HoursPerDay

\* a date of the schedule loop as the model keeps it: itself inside the
\* window, and past the window one of two dates that alternate from one
\* pass of the loop to the next
InWindow(t, duration) ==
    IF t <= HorizonTime THEN t
    ELSE IF t - duration = HorizonTime + 1 THEN HorizonTime + 2
    ELSE HorizonTime + 1

----------------------------------------------------------------------------
(* Records *)

Nil == << >>
Ref(x) == << x >>
IsNil(p) == Len(p) = 0
Deref(p) == p[1]

NilMap == << >>

RawDebt(id, amount, inPlan) ==
    [ID |-> id, Amount |-> amount, InPaymentPlan |-> inPlan,
     RemainingAmount |-> 0, remainingAmountCalculated |-> FALSE,
     NextPaymentDate |-> Nil, paymentPlan |-> Nil]

RawPlan(id, did, target, freq, inst, startDay) ==
    [ID |-> id, DebtID |-> did, AmountToPay |-> target,
     InstallmentFrequency |-> freq, InstallmentAmount |-> inst,
     startDate |-> Parse(<<startDay>>), payments |-> << >>,
     schedule |-> NilMap]

RawPayment(amount, day, planId) ==
    [Amount |-> amount, date |-> Parse(<<day>>), PaymentPlanID |-> planId,
     scheduled |-> FALSE]

PlanSet ==
    { RawPlan(id, did, t, f, i, s) :
        id \in PlanIDs, did \in DebtIDs, t \in TargetAmounts,
        f \in PlanFrequencies, i \in InstallmentAmounts, s \in StartDays }

PaymentSet ==
    { RawPayment(a, d, p) : a \in PaymentAmounts, d \in PaymentDays, p \in PaymentPlanIDs }

\* sort.Slice by date: ascending, payments of equal date in any order
IsSortedByDate(s) == \A i \in 1..(Len(s) - 1) : s[i].date <= s[i + 1].date

PaymentLists ==
    { s \in UNION { [1..n -> PaymentSet] : n \in 0..MaxPayments } : IsSortedByDate(s) }

----------------------------------------------------------------------------
(* The methods of Debt and PaymentPlan.  A method that may write to its      *)
(* receiver yields the record [ret |-> its result, debt |-> the receiver    *)
(* after the call].                                                        *)

HasPlan(d) == ~IsNil(d.paymentPlan)

EmptyString == << >>

\* paymentFrequencyAsDuration: the cadence as a duration in hours, or an error
paymentFrequencyAsDuration(freq) ==
    LET frequency == ToLower(freq)
    IN  CASE frequency = weekly -> [d |-> HoursPerDay * WeeklyDays, err |-> FALSE]
          [] frequency = biweekly -> [d |-> HoursPerDay * BiweeklyDays, err |-> FALSE]
          [] OTHER -> [d |-> 0, err |-> TRUE]

\* the loop of sumTotalPayments: the running total is rounded after each term
RECURSIVE SumLoop(_, _, _)
SumLoop(ps, i, rvalue) ==
    IF i > Len(ps) THEN rvalue
    ELSE SumLoop(ps, i + 1, Round2(rvalue + ps[i].Amount))

\* sumTotalPayments: <<total paid, number of payments>>
sumTotalPayments(d) ==
    IF HasPlan(d)
    THEN LET plan == Deref(d.paymentPlan)
         IN  << SumLoop(plan.payments, 1, 0), Len(plan.payments) >>
    ELSE << 0, 0 >>

\* a variant of calculateRemainingAmount without the check for a zero
\* amount_to_pay
calculateRemainingAmount_NoZeroCheck(d, updateObject) ==
    LET amountPaid == sumTotalPayments(d)[1]
        base == IF HasPlan(d) /\ Deref(d.paymentPlan).AmountToPay # d.Amount
                THEN Deref(d.paymentPlan).AmountToPay
                ELSE d.Amount
        rvalue == Round2(base - amountPaid)
    IN  [ret |-> rvalue,
         debt |-> IF updateObject
                  THEN [d EXCEPT !.remainingAmountCalculated = TRUE,
                                 !.RemainingAmount = rvalue]
                  ELSE d]

\* calculateRemainingAmount(updateObject)
calculateRemainingAmount(d, updateObject) ==
    LET amountPaid == sumTotalPayments(d)[1]
        base == IF HasPlan(d)
                   /\ Deref(d.paymentPlan).AmountToPay # d.Amount
                   /\ Deref(d.paymentPlan).AmountToPay # 0
                THEN Deref(d.paymentPlan).AmountToPay
                ELSE d.Amount
        rvalue == Round2(base - amountPaid)
    IN  [ret |-> rvalue,
         debt |-> IF updateObject
                  THEN [d EXCEPT !.remainingAmountCalculated = TRUE,
                                 !.RemainingAmount = rvalue]
                  ELSE d]

\* a variant of isDebtPaidOff that computes the remaining amount on every
\* call
isDebtPaidOff_Recompute(d) ==
    LET d1 == calculateRemainingAmount(d, TRUE).debt
    IN  [ret |-> (d1.RemainingAmount = 0 \/ d1.RemainingAmount < 0),
         debt |-> d1]

\* a variant of isDebtPaidOff that takes only a zero remaining amount for
\* paid off
isDebtPaidOff_ZeroOnly(d) ==
    LET d1 == IF ~d.remainingAmountCalculated
              THEN calculateRemainingAmount(d, TRUE).debt
              ELSE d
    IN  [ret |-> (d1.RemainingAmount = 0), debt |-> d1]

\* isDebtPaidOff
isDebtPaidOff(d) ==
    LET d1 == IF ~d.remainingAmountCalculated
              THEN calculateRemainingAmount(d, TRUE).debt
              ELSE d
    IN  [ret |-> (d1.RemainingAmount = 0 \/ d1.RemainingAmount < 0),
         debt |-> d1]

\* a variant of isPaymentPlanActive that takes every debt with a plan for
\* active
isPaymentPlanActive_AnyPlan(d) ==
    IF HasPlan(d)
    THEN [ret |-> TRUE, debt |-> isDebtPaidOff(d).debt]
    ELSE [ret |-> FALSE, debt |-> d]

\* isPaymentPlanActive
isPaymentPlanActive(d) ==
    IF HasPlan(d)
    THEN LET paid == isDebtPaidOff(d)
         IN  [ret |-> ~paid.ret, debt |-> paid.debt]
    ELSE [ret |-> FALSE, debt |-> d]

\* a variant of the backward loop that does not skip unscheduled payments
RECURSIVE ScanBack_AnyPayment(_, _)
ScanBack_AnyPayment(plan, i) ==
    IF i < 1 THEN [early |-> FALSE, next |-> 0]
    ELSE LET pmt == plan.payments[i]
         IN  IF IsZero(pmt.date) THEN [early |-> TRUE, next |-> 0]
             ELSE LET f == paymentFrequencyAsDuration(plan.InstallmentFrequency)
                  IN  IF f.err THEN [early |-> TRUE, next |-> 0]
                      ELSE IF IsZero(AddDuration(pmt.date, f.d))
                           THEN ScanBack_AnyPayment(plan, i - 1)
                      ELSE [early |-> FALSE, next |-> AddDuration(pmt.date, f.d)]

\* the backward loop of calculateNextPaymentDate from 1-based index i:
\* early is a return from inside the loop, next the nextScheduledDate
RECURSIVE ScanBack(_, _)
ScanBack(plan, i) ==
    IF i < 1 THEN [early |-> FALSE, next |-> 0]
    ELSE LET pmt == plan.payments[i]
         IN  IF ~pmt.scheduled THEN ScanBack(plan, i - 1)
             ELSE IF IsZero(pmt.date) THEN [early |-> TRUE, next |-> 0]
             ELSE LET f == paymentFrequencyAsDuration(plan.InstallmentFrequency)
                  IN  IF f.err THEN [early |-> TRUE, next |-> 0]
                      ELSE IF IsZero(AddDuration(pmt.date, f.d))
                           THEN ScanBack(plan, i - 1)
                      ELSE [early |-> FALSE, next |-> AddDuration(pmt.date, f.d)]

\* a variant of calculateNextPaymentDate whose fallback is one cadence
\* increment past the start date
calculateNextPaymentDate_StartPlusCadence(d, updateObject) ==
    LET act == isPaymentPlanActive(d)
        d1 == act.debt
    IN  IF ~act.ret THEN [ret |-> EmptyString, debt |-> d1]
        ELSE LET plan == Deref(d1.paymentPlan)
                 scan == ScanBack(plan, Len(plan.payments))
                 f == paymentFrequencyAsDuration(plan.InstallmentFrequency)
                 nextScheduledDate == IF IsZero(scan.next)
                                      THEN AddDuration(plan.startDate, f.d)
                                      ELSE scan.next
                 nextPaymentDate == Format(nextScheduledDate)
             IN  IF scan.early THEN [ret |-> EmptyString, debt |-> d1]
                 ELSE [ret |-> nextPaymentDate,
                       debt |-> IF updateObject /\ Len(nextPaymentDate) > 0
                                THEN [d1 EXCEPT !.NextPaymentDate = Ref(nextPaymentDate)]
                                ELSE d1]

\* calculateNextPaymentDate(updateObject)
calculateNextPaymentDate(d, updateObject) ==
    LET act == isPaymentPlanActive(d)
        d1 == act.debt
    IN  IF ~act.ret THEN [ret |-> EmptyString, debt |-> d1]
        ELSE LET plan == Deref(d1.paymentPlan)
                 scan == ScanBack(plan, Len(plan.payments))
                 nextScheduledDate == IF IsZero(scan.next) THEN plan.startDate
                                      ELSE scan.next
                 nextPaymentDate == Format(nextScheduledDate)
             IN  IF scan.early THEN [ret |-> EmptyString, debt |-> d1]
                 ELSE [ret |-> nextPaymentDate,
                       debt |-> IF updateObject /\ Len(nextPaymentDate) > 0
                                THEN [d1 EXCEPT !.NextPaymentDate = Ref(nextPaymentDate)]
                                ELSE d1]

\* a variant of isPaymentDateAScheduledDate with a grace period of a day
isPaymentDateAScheduledDate_Grace(plan, paymentDate) ==
    \E t \in DOMAIN plan.schedule : Abs(t - paymentDate) <= HoursPerDay

\* isPaymentDateAScheduledDate
isPaymentDateAScheduledDate(plan, paymentDate) == paymentDate \in DOMAIN plan.schedule

\* tagScheduledPayments: the plan with every payment's scheduled flag set
tagScheduledPayments(plan) ==
    [plan EXCEPT !.payments =
        [idx \in 1..Len(plan.payments) |->
            [plan.payments[idx] EXCEPT !.scheduled =
                isPaymentDateAScheduledDate(plan, plan.payments[idx].date)]]]

\* a Go map assignment m[k] = v
MapPut(m, k, v) == [x \in (DOMAIN m) \cup {k} |-> IF x = k THEN v ELSE m[x]]

\* a variant of delete that empties the map
MapDelete_All(m, k) == NilMap

\* a Go map delete(m, k)
MapDelete(m, k) == [x \in (DOMAIN m) \ {k} |-> m[x]]

\* a variant of the loop body that subtracts the installment before it
\* stores the entry
ScheduleStep_StoreAfter(plan, duration, date, amount) ==
    [schedule |-> MapPut(plan.schedule, date, amount - plan.InstallmentAmount),
     runningDate |-> AddDuration(date, duration),
     anticipatedDebtAmount |-> amount - plan.InstallmentAmount]

\* the body of the loop of generatePaymentSchedule: the entry for runningDate
\* is stored, then the date advances and the installment is subtracted
ScheduleStep(plan, duration, date, amount) ==
    [schedule |-> MapPut(plan.schedule, date, amount),
     runningDate |-> AddDuration(date, duration),
     anticipatedDebtAmount |-> amount - plan.InstallmentAmount]

\* a variant of the filter that takes every payment of the list
PaymentsOfPlan_All(ps, planId) == ps

\* the payments whose payment_plan_id is planId, in the order of the list
RECURSIVE PaymentsOfPlan(_, _)
PaymentsOfPlan(ps, planId) ==
    IF Len(ps) = 0 THEN << >>
    ELSE IF Head(ps).PaymentPlanID = planId
         THEN << Head(ps) >> \o PaymentsOfPlan(Tail(ps), planId)
         ELSE PaymentsOfPlan(Tail(ps), planId)

\* normalizeData's loop body after generatePaymentSchedule has returned:
\* classification, next payment date and the active flag
AfterSchedule(d) ==
    LET d1 == [d EXCEPT !.paymentPlan = Ref(tagScheduledPayments(Deref(d.paymentPlan)))]
        paid == isDebtPaidOff(d1)
        d2 == IF ~paid.ret THEN calculateNextPaymentDate(paid.debt, TRUE).debt
              ELSE paid.debt
        active == isPaymentPlanActive(d2)
    IN  [active.debt EXCEPT !.InPaymentPlan = active.ret]

----------------------------------------------------------------------------
(* The state machine: normalizeData on the fetched collections, then the    *)
(* method calls a caller makes on a debt of the reconciled collection.     *)
(* Init is a call of normalizeData on collections its caller built, no      *)
(* fetch running; RunInit, further down, is the start of main.              *)

NoCall == [op |-> "none", updateObject |-> FALSE, val |-> 0]

\* the three fetches, and the number of results the wait loop counts up to
Fetches == {"debts", "plans", "payments"}
NumFetches == 3

\* the value a fetch goroutine sends: the collection and a nil error, or an
\* error
Wrapper(val) == [err |-> FALSE, val |-> val]
ErrWrapper == [err |-> TRUE, val |-> << >>]

NoOutput == [kind |-> "none", debts |-> NilMap]

\* the three channels as make(chan ...) leaves them
NoTraffic == [t \in Fetches |-> [sent |-> 0, received |-> 0]]

Init ==
    /\ \E amount \in DebtAmounts, inPlan \in BOOLEAN :
          debts = [id \in DebtIDs |-> RawDebt(id, amount, inPlan)]
    /\ \E keys \in SUBSET DebtIDs :
          paymentPlans \in { f \in [keys -> PlanSet] : \A k \in keys : f[k].DebtID = k }
    /\ payments \in PaymentLists
    /\ pending = DOMAIN debts
    /\ pc = "range"
    /\ debtId = 0
    /\ debt = Nil
    /\ runningDate = 0
    /\ anticipatedDebtAmount = 0
    /\ err = FALSE
    /\ testDebt = Nil
    /\ ret = NoCall
    /\ fetched = [t \in Fetches |-> ErrWrapper]
    /\ tasks = [t \in Fetches |-> "idle"]
    /\ waitCount = 0
    /\ timedOut = FALSE
    /\ plans = Nil
    /\ output = NoOutput
    /\ channels = NoTraffic
    /\ elapsed = 0
    /\ timer = 0

\* one iteration of  for debtId, debt := range debts  for a debt without a
\* plan: the debt is stored back as it was read
RangeNoPlan ==
    /\ pc = "range"
    /\ \E id \in pending :
          /\ id \notin DOMAIN paymentPlans
          /\ debts' = MapPut(debts, id, debts[id])
          /\ pending' = pending \ {id}
          /\ debtId' = id
          /\ debt' = Ref(debts[id])
    /\ UNCHANGED <<paymentPlans, payments, pc, runningDate,
                   anticipatedDebtAmount, err, testDebt, ret>>
    /\ UNCHANGED coordVars

\* one iteration for a debt with a plan, up to the loop of
\* generatePaymentSchedule, which an unrecognized frequency skips
RangeAttach ==
    /\ pc = "range"
    /\ \E id \in pending :
          /\ id \in DOMAIN paymentPlans
          /\ LET plan == [paymentPlans[id] EXCEPT
                             !.payments = PaymentsOfPlan(payments, paymentPlans[id].ID)]
                 d == [debts[id] EXCEPT !.paymentPlan = Ref(plan)]
                 f == paymentFrequencyAsDuration(plan.InstallmentFrequency)
             IN  /\ paymentPlans' = MapDelete(paymentPlans, id)
                 /\ debtId' = id
                 /\ pending' = pending \ {id}
                 /\ debt' = Ref(d)
                 /\ IF ~f.err
                    THEN /\ runningDate' = plan.startDate
                         /\ anticipatedDebtAmount' = plan.AmountToPay
                         /\ pc' = "generate"
                    ELSE /\ pc' = "tag"
                         /\ UNCHANGED <<runningDate, anticipatedDebtAmount>>
    /\ UNCHANGED <<debts, payments, err, testDebt, ret>>
    /\ UNCHANGED coordVars

\* one pass of the loop of generatePaymentSchedule.  Inside the modelled
\* window of dates the pass is the loop body.  A loop that has run past the
\* window keeps running there: of its date the model keeps the parity of the
\* number of passes, of its amount that it is positive, and of its entries
\* past the window nothing.
GenerateStep ==
    /\ pc = "generate"
    /\ IsPositive(anticipatedDebtAmount)
    /\ LET d == Deref(debt)
           plan == Deref(d.paymentPlan)
           duration == paymentFrequencyAsDuration(plan.InstallmentFrequency).d
           step == ScheduleStep(plan, duration, runningDate, anticipatedDebtAmount)
       IN  IF runningDate <= HorizonTime
           THEN /\ runningDate' = InWindow(step.runningDate, duration)
                /\ anticipatedDebtAmount' = step.anticipatedDebtAmount
                /\ debt' = Ref([d EXCEPT !.paymentPlan =
                                     Ref([plan EXCEPT !.schedule = step.schedule])])
           ELSE /\ runningDate' = InWindow(step.runningDate, duration)
                /\ UNCHANGED <<anticipatedDebtAmount, debt>>
    /\ UNCHANGED <<debts, paymentPlans, payments, pending, pc, debtId, err,
                   testDebt, ret>>
    /\ UNCHANGED coordVars

\* the loop of generatePaymentSchedule ends: the anticipated amount is not
\* positive
GenerateExit ==
    /\ pc = "generate"
    /\ ~IsPositive(anticipatedDebtAmount)
    /\ pc' = "tag"
    /\ UNCHANGED <<debts, paymentPlans, payments, pending, debtId, debt,
                   runningDate, anticipatedDebtAmount, err, testDebt, ret>>
    /\ UNCHANGED coordVars

\* the rest of the iteration: classification, next payment date, active
\* flag, and the debt stored back in the collection
FinishIteration ==
    /\ pc = "tag"
    /\ debt' = Ref(AfterSchedule(Deref(debt)))
    /\ debts' = MapPut(debts, debtId, Deref(debt'))
    /\ pc' = "range"
    /\ UNCHANGED <<paymentPlans, payments, pending, debtId, runningDate,
                   anticipatedDebtAmount, err, testDebt, ret>>
    /\ UNCHANGED coordVars

\* the end of normalizeData: the check for leftover plans, and the return
NormalizeReturn ==
    /\ pc = "range"
    /\ pending = {}
    /\ err' = (Cardinality(DOMAIN paymentPlans) > 1)
    /\ pc' = "returned"
    /\ UNCHANGED <<debts, paymentPlans, payments, pending, debtId, debt,
                   runningDate, anticipatedDebtAmount, testDebt, ret>>
    /\ UNCHANGED coordVars

\* a caller takes a copy of a debt of the collection:  debt := debts[id]
GetDebt ==
    /\ pc = "returned"
    /\ \E id \in DOMAIN debts : testDebt' = Ref(debts[id])
    /\ ret' = NoCall
    /\ UNCHANGED <<debts, paymentPlans, payments, pending, pc, debtId, debt,
                   runningDate, anticipatedDebtAmount, err>>
    /\ UNCHANGED coordVars

CallCalculateRemainingAmount ==
    /\ pc = "returned"
    /\ ~IsNil(testDebt)
    /\ \E updateObject \in BOOLEAN :
          LET r == calculateRemainingAmount(Deref(testDebt), updateObject)
          IN  /\ testDebt' = Ref(r.debt)
              /\ ret' = [op |-> "calculateRemainingAmount",
                         updateObject |-> updateObject, val |-> r.ret]
    /\ UNCHANGED <<debts, paymentPlans, payments, pending, pc, debtId, debt,
                   runningDate, anticipatedDebtAmount, err>>
    /\ UNCHANGED coordVars

CallIsDebtPaidOff ==
    /\ pc = "returned"
    /\ ~IsNil(testDebt)
    /\ LET r == isDebtPaidOff(Deref(testDebt))
       IN  /\ testDebt' = Ref(r.debt)
           /\ ret' = [op |-> "isDebtPaidOff", updateObject |-> FALSE, val |-> r.ret]
    /\ UNCHANGED <<debts, paymentPlans, payments, pending, pc, debtId, debt,
                   runningDate, anticipatedDebtAmount, err>>
    /\ UNCHANGED coordVars

CallCalculateNextPaymentDate ==
    /\ pc = "returned"
    /\ ~IsNil(testDebt)
    /\ \E updateObject \in BOOLEAN :
          LET r == calculateNextPaymentDate(Deref(testDebt), updateObject)
          IN  /\ testDebt' = Ref(r.debt)
              /\ ret' = [op |-> "calculateNextPaymentDate",
                         updateObject |-> updateObject, val |-> r.ret]
    /\ UNCHANGED <<debts, paymentPlans, payments, pending, pc, debtId, debt,
                   runningDate, anticipatedDebtAmount, err>>
    /\ UNCHANGED coordVars

\* a caller reads what the debt's payments total:  debt.sumTotalPayments()
CallSumTotalPayments ==
    /\ pc = "returned"
    /\ ~IsNil(testDebt)
    /\ ret' = [op |-> "sumTotalPayments", updateObject |-> FALSE,
               val |-> sumTotalPayments(Deref(testDebt))[1]]
    /\ UNCHANGED <<debts, paymentPlans, payments, pending, pc, debtId, debt,
                   runningDate, anticipatedDebtAmount, err, testDebt>>
    /\ UNCHANGED coordVars

Next ==
    \/ RangeNoPlan
    \/ RangeAttach
    \/ GenerateStep
    \/ GenerateExit
    \/ FinishIteration
    \/ NormalizeReturn
    \/ GetDebt
    \/ CallCalculateRemainingAmount
    \/ CallIsDebtPaidOff
    \/ CallCalculateNextPaymentDate
    \/ CallSumTotalPayments

Spec == Init /\ [][Next]_vars

\* a caller adds a payment to the plan of its copy of a debt:
\* plan.payments = append(plan.payments, payment)
AppendPayment ==
    /\ pc = "returned"
    /\ ~IsNil(testDebt)
    /\ HasPlan(Deref(testDebt))
    /\ Len(Deref(Deref(testDebt).paymentPlan).payments) < MaxPayments
    /\ \E amount \in PaymentAmounts :
          LET d == Deref(testDebt)
              plan == Deref(d.paymentPlan)
              payment == RawPayment(amount, MaxDay, plan.ID)
          IN  testDebt' = Ref([d EXCEPT !.paymentPlan =
                  Ref([plan EXCEPT !.payments = Append(plan.payments, payment)])])
    /\ ret' = NoCall
    /\ UNCHANGED <<debts, paymentPlans, payments, pending, pc, debtId, debt,
                   runningDate, anticipatedDebtAmount, err>>
    /\ UNCHANGED coordVars

\* a caller attaches a plan to its copy of a debt that has none:
\* debt.paymentPlan = &plan
AttachPlan ==
    /\ pc = "returned"
    /\ ~IsNil(testDebt)
    /\ ~HasPlan(Deref(testDebt))
    /\ \E plan \in PlanSet :
          /\ plan.DebtID = Deref(testDebt).ID
          /\ plan.InstallmentFrequency = weekly
          /\ IsPositive(plan.InstallmentAmount)
          /\ testDebt' = Ref([Deref(testDebt) EXCEPT !.paymentPlan = Ref(plan)])
    /\ ret' = NoCall
    /\ UNCHANGED <<debts, paymentPlans, payments, pending, pc, debtId, debt,
                   runningDate, anticipatedDebtAmount, err>>
    /\ UNCHANGED coordVars

\* a caller converts a label:  paymentFrequencyAsDuration(freq)
CallPaymentFrequencyAsDuration ==
    /\ pc = "returned"
    /\ \E freq \in FrequencyLabels :
          LET f == paymentFrequencyAsDuration(freq)
          IN  ret' = [op |-> "paymentFrequencyAsDuration", updateObject |-> FALSE,
                      val |-> [freq |-> freq, d |-> f.d, err |-> f.err]]
    /\ UNCHANGED <<debts, paymentPlans, payments, pending, pc, debtId, debt,
                   runningDate, anticipatedDebtAmount, err, testDebt>>
    /\ UNCHANGED coordVars

CacheNext ==
    \/ Next
    \/ AppendPayment

\* the plans of terminating schedules: a weekly cadence and a positive
\* installment
CacheInit ==
    /\ Init
    /\ \A k \in DOMAIN paymentPlans :
          /\ paymentPlans[k].InstallmentFrequency = weekly
          /\ IsPositive(paymentPlans[k].InstallmentAmount)
    /\ \A k \in DOMAIN debts : ~debts[k].InPaymentPlan
    /\ \A i \in 1..Len(payments) : payments[i].PaymentPlanID \in PlanIDs

\* the reconciliation and the calls of a caller, the caller also changing
\* the payments of the debt it holds between its calls
CacheSpec == CacheInit /\ [][CacheNext]_vars

CallerNext ==
    \/ Next
    \/ AttachPlan
    \/ CallPaymentFrequencyAsDuration

\* the reconciliation and the calls of a caller, the caller also attaching
\* a plan to a debt without one, and converting frequency labels
CallerSpec == CacheInit /\ [][CallerNext]_vars

\* the runs on collections without payments: what generatePaymentSchedule
\* does depends on the plan alone
ScheduleInit == Init /\ payments = << >>

\* the scheduler keeps running the loop of generatePaymentSchedule while
\* the loop has a pass to make
FairSpec == ScheduleInit /\ [][Next]_vars /\ WF_vars(GenerateStep \/ GenerateExit)

----------------------------------------------------------------------------
(* The run of main: populateDebtHierarchy starts the three fetches, waits   *)
(* for their results or for the timeout, and calls normalizeData; main      *)
(* prints the debts or the error.                                           *)

(* Input domains of the run: what the three endpoints deliver *)

RunDebtIDs == {1, 2}
RunPlanDebtIDs == {1, 2, 3, 4}

RunDebt(id) == RawDebt(id, 1000, FALSE)

\* the plan of debt 2 has a frequency the program does not know
RunPlan(did) ==
    RawPlan(10 + did, did, 1005, IF did = 2 THEN "monthly" ELSE "weekly", 500, 10)

\* payments in ascending order of date: two of plan 11, one of plan 12, one
\* of plan 13
RunPayments ==
    << RawPayment(500, 10, 11), RawPayment(500, 11, 11),
       RawPayment(500, 17, 12), RawPayment(500, 24, 13) >>

\* the elements of s at the indices of S, in the order of s
RECURSIVE Pick(_, _, _)
Pick(s, S, i) ==
    IF i > Len(s) THEN << >>
    ELSE (IF i \in S THEN << s[i] >> ELSE << >>) \o Pick(s, S, i + 1)

DebtsReturns ==
    {ErrWrapper} \cup { Wrapper([id \in K |-> RunDebt(id)]) : K \in SUBSET RunDebtIDs }

PaymentPlansReturns ==
    {ErrWrapper} \cup { Wrapper([did \in K |-> RunPlan(did)]) : K \in SUBSET RunPlanDebtIDs }

PaymentsReturns ==
    {ErrWrapper} \cup
    { Wrapper(Pick(RunPayments, S, 1)) : S \in SUBSET (1..Len(RunPayments)) }

\* main has declared debts, a nil map, and populateDebtHierarchy has started
\* the three goroutines
RunInit ==
    /\ fetched \in [debts : DebtsReturns, plans : PaymentPlansReturns,
                    payments : PaymentsReturns]
    /\ tasks = [t \in Fetches |-> "running"]
    /\ waitCount = 0
    /\ timedOut = FALSE
    /\ debts = NilMap
    /\ plans = Nil
    /\ payments = << >>
    /\ paymentPlans = NilMap
    /\ pending = {}
    /\ pc = "select"
    /\ debtId = 0
    /\ debt = Nil
    /\ runningDate = 0
    /\ anticipatedDebtAmount = 0
    /\ err = FALSE
    /\ testDebt = Nil
    /\ ret = NoCall
    /\ output = NoOutput
    /\ channels = NoTraffic
    /\ elapsed = 0
    /\ timer = 0

normalizeVars == <<paymentPlans, pending, debtId, debt, runningDate,
                   anticipatedDebtAmount, err, testDebt, ret>>

\* a fetch goroutine up to its send: the request and the parsing are done,
\* with or without an error, and the goroutine is at  results <- rvalue  on
\* its unbuffered channel; it returns when the value has been received.  The
\* goroutines end with the process, when main returns.  First a variant of
\* retrieveDebts that returns on an error without a send.
retrieveDebts_NoSendOnError ==
    /\ pc # "exit"
    /\ tasks["debts"] = "running"
    /\ IF fetched["debts"].err
       THEN /\ tasks' = [tasks EXCEPT !["debts"] = "done"]
            /\ UNCHANGED channels
       ELSE /\ tasks' = [tasks EXCEPT !["debts"] = "sending"]
            /\ channels' = [channels EXCEPT !["debts"].sent = @ + 1]
    /\ UNCHANGED <<debts, payments, pc, fetched, waitCount, timedOut, plans, output>>
    /\ UNCHANGED normalizeVars
    /\ UNCHANGED <<elapsed, timer>>

retrieveDebts ==
    /\ pc # "exit"
    /\ tasks["debts"] = "running"
    /\ tasks' = [tasks EXCEPT !["debts"] = "sending"]
    /\ channels' = [channels EXCEPT !["debts"].sent = @ + 1]
    /\ UNCHANGED <<debts, payments, pc, fetched, waitCount, timedOut, plans, output>>
    /\ UNCHANGED normalizeVars
    /\ UNCHANGED <<elapsed, timer>>

retrievePaymentPlans ==
    /\ pc # "exit"
    /\ tasks["plans"] = "running"
    /\ tasks' = [tasks EXCEPT !["plans"] = "sending"]
    /\ channels' = [channels EXCEPT !["plans"].sent = @ + 1]
    /\ UNCHANGED <<debts, payments, pc, fetched, waitCount, timedOut, plans, output>>
    /\ UNCHANGED normalizeVars
    /\ UNCHANGED <<elapsed, timer>>

retrievePayments ==
    /\ pc # "exit"
    /\ tasks["payments"] = "running"
    /\ tasks' = [tasks EXCEPT !["payments"] = "sending"]
    /\ channels' = [channels EXCEPT !["payments"].sent = @ + 1]
    /\ UNCHANGED <<debts, payments, pc, fetched, waitCount, timedOut, plans, output>>
    /\ UNCHANGED normalizeVars
    /\ UNCHANGED <<elapsed, timer>>

\* a variant of the condition that ends the loop after two results
Waiting_TwoResults == pc = "select" /\ waitCount < NumFetches - 1 /\ timedOut # TRUE

\* the condition of the wait loop
Waiting == pc = "select" /\ waitCount < NumFetches /\ timedOut # TRUE

\* case debtWrapper := <-debtsChannel.  The next pass of the loop makes a new
\* timer.
ReceiveDebts ==
    /\ Waiting
    /\ tasks["debts"] = "sending"
    /\ tasks' = [tasks EXCEPT !["debts"] = "done"]
    /\ channels' = [channels EXCEPT !["debts"].received = @ + 1]
    /\ waitCount' = waitCount + 1
    /\ debts' = IF ~fetched["debts"].err THEN fetched["debts"].val ELSE debts
    /\ UNCHANGED <<payments, pc, fetched, timedOut, plans, output>>
    /\ UNCHANGED normalizeVars
    /\ timer' = 0
    /\ UNCHANGED elapsed

\* case planWrapper := <-paymentPlanChannel
ReceivePlans ==
    /\ Waiting
    /\ tasks["plans"] = "sending"
    /\ tasks' = [tasks EXCEPT !["plans"] = "done"]
    /\ channels' = [channels EXCEPT !["plans"].received = @ + 1]
    /\ waitCount' = waitCount + 1
    /\ plans' = IF ~fetched["plans"].err THEN Ref(fetched["plans"].val) ELSE plans
    /\ UNCHANGED <<debts, payments, pc, fetched, timedOut, output>>
    /\ UNCHANGED normalizeVars
    /\ timer' = 0
    /\ UNCHANGED elapsed

\* case paymentsWrapper := <-paymentsChannel.  The slice retrievePayments
\* builds by append is nil when no payment was appended.
ReceivePayments ==
    /\ Waiting
    /\ tasks["payments"] = "sending"
    /\ tasks' = [tasks EXCEPT !["payments"] = "done"]
    /\ channels' = [channels EXCEPT !["payments"].received = @ + 1]
    /\ waitCount' = waitCount + 1
    /\ payments' = IF ~fetched["payments"].err THEN fetched["payments"].val
                   ELSE payments
    /\ UNCHANGED <<debts, pc, fetched, timedOut, plans, output>>
    /\ UNCHANGED normalizeVars
    /\ timer' = 0
    /\ UNCHANGED elapsed

\* the length of a step of the clock
TickSeconds == TimerSeconds \div TicksPerTimer

\* time passes in the select: no goroutine is at its send, and the timer
\* has not run out
Tick ==
    /\ Waiting
    /\ \A t \in Fetches : tasks[t] # "sending"
    /\ timer < TimerSeconds
    /\ timer' = timer + TickSeconds
    /\ elapsed' = elapsed + TickSeconds
    /\ UNCHANGED <<debts, payments, pc, fetched, tasks, waitCount, timedOut,
                   plans, output, channels>>
    /\ UNCHANGED normalizeVars

\* case <-time.After(240 * time.Second): the timer that this pass of the
\* loop made has run out
Timeout ==
    /\ Waiting
    /\ timer = TimerSeconds
    /\ timedOut' = TRUE
    /\ UNCHANGED <<debts, payments, pc, fetched, tasks, waitCount, plans, output,
                   channels, elapsed, timer>>
    /\ UNCHANGED normalizeVars

\* a variant of the test that does not look at the payments
ProblemGathering_PlansOnly == IsNil(plans)

\* plans == nil || debts == nil || payments == nil, where debts is the
\* address of main's map and never nil
ProblemGathering == IsNil(plans) \/ Len(payments) = 0

\* the test finds a collection missing: populateDebtHierarchy returns the
\* error, and main prints it and returns
ReturnGatherError ==
    /\ pc = "select"
    /\ ~Waiting
    /\ ProblemGathering
    /\ output' = [kind |-> "error", debts |-> NilMap]
    /\ pc' = "exit"
    /\ UNCHANGED <<debts, payments, fetched, tasks, waitCount, timedOut, plans,
                   channels>>
    /\ UNCHANGED normalizeVars
    /\ UNCHANGED <<elapsed, timer>>

\* err = normalizeData(*debts, plans, payments)
CallNormalizeData ==
    /\ pc = "select"
    /\ ~Waiting
    /\ ~ProblemGathering
    /\ paymentPlans' = Deref(plans)
    /\ pending' = DOMAIN debts
    /\ pc' = "range"
    /\ UNCHANGED <<debts, payments, debtId, debt, runningDate,
                   anticipatedDebtAmount, err, testDebt, ret>>
    /\ UNCHANGED coordVars

\* normalizeData has returned: populateDebtHierarchy returns its error, and
\* main prints the error, or the debts of the map
MainPrint ==
    /\ pc = "returned"
    /\ output' = IF err THEN [kind |-> "error", debts |-> NilMap]
                 ELSE [kind |-> "debts", debts |-> debts]
    /\ pc' = "exit"
    /\ UNCHANGED <<debts, payments, fetched, tasks, waitCount, timedOut, plans,
                   channels>>
    /\ UNCHANGED normalizeVars
    /\ UNCHANGED <<elapsed, timer>>

RunNext ==
    \/ retrieveDebts
    \/ retrievePaymentPlans
    \/ retrievePayments
    \/ ReceiveDebts
    \/ ReceivePlans
    \/ ReceivePayments
    \/ Tick
    \/ Timeout
    \/ ReturnGatherError
    \/ CallNormalizeData
    \/ RangeNoPlan
    \/ RangeAttach
    \/ GenerateStep
    \/ GenerateExit
    \/ FinishIteration
    \/ NormalizeReturn
    \/ MainPrint

RunSpec == RunInit /\ [][RunNext]_vars

----------------------------------------------------------------------------
(* Vocabulary of the properties *)

DayOf(t) == t \div HoursPerDay

PlanOf(d) == Deref(d.paymentPlan)

\* the base the remaining amount is counted from
BaseAmount(d) ==
    IF HasPlan(d) /\ PlanOf(d).AmountToPay # 0 THEN PlanOf(d).AmountToPay
    ELSE d.Amount

\* the arithmetic sum of the amounts of a list of payments
RECURSIVE ExactSum(_)
ExactSum(ps) == IF Len(ps) = 0 THEN 0 ELSE Head(ps).Amount + ExactSum(Tail(ps))

WholeCents(ps) == \A i \in 1..Len(ps) : ps[i].Amount % 10 = 0

\* what the debt's plan has been paid, as sumTotalPayments counts it
TotalPaid(d) == sumTotalPayments(d)[1]

\* the remaining amount of a debt
Remaining(d) == Round2(BaseAmount(d) - TotalPaid(d))

\* an active debt: a plan is attached and the debt is not paid off
Active(d) == HasPlan(d) /\ Remaining(d) > 0

ScheduledPayments(plan) ==
    { i \in 1..Len(plan.payments) : plan.payments[i].scheduled }

\* the cadence of a plan in days, for a recognized installment_frequency
Recognized(plan) == ToLower(plan.InstallmentFrequency) \in {weekly, biweekly}

CadenceDays(plan) ==
    IF ToLower(plan.InstallmentFrequency) = weekly THEN WeeklyDays ELSE BiweeklyDays

SetMax(S) == CHOOSE x \in S : \A y \in S : y <= x

\* the latest date start + k * cadence, k >= 0, not after the most recent
\* payment, and the start date when that payment precedes it
GridDay(plan) ==
    LET start == DayOf(plan.startDate)
        recent == SetMax({ DayOf(plan.payments[i].date) : i \in 1..Len(plan.payments) })
        c == CadenceDays(plan)
    IN  IF recent < start THEN start
        ELSE start + ((recent - start) \div c) * c

\* a collection the coordinator does not have: its fetch reported an error,
\* or its result was not received
Missing(t) == tasks[t] # "done" \/ fetched[t].err

\* the coordinator has all three collections
Gathered == \A t \in Fetches : ~Missing(t)

\* normalizeData has been called and main has not yet returned
InNormalizeData == pc \in {"range", "generate", "tag", "returned"}

\* the plans that were left in the pool
Orphans == DOMAIN paymentPlans

\* payments as they were before they were classified
Untagged(ps) == [i \in 1..Len(ps) |-> [ps[i] EXCEPT !.scheduled = FALSE]]

\* the payments of a list that carry a plan's id, in the order of the list
PaymentsWithPlanID(ps, planId) ==
    LET Match(p) == p.PaymentPlanID = planId
    IN  SelectSeq(ps, Match)

\* the debts to whose plan a payment of the list is attached
AttachedTo(p) ==
    { id \in DOMAIN debts :
        /\ HasPlan(debts[id])
        /\ \E j \in 1..Len(PlanOf(debts[id]).payments) :
              Untagged(PlanOf(debts[id]).payments)[j] = p }

\* the schedule a plan's loop builds from a date and an amount on
RECURSIVE FullSchedule(_, _, _, _)
FullSchedule(plan, duration, date, amount) ==
    IF ~IsPositive(amount) \/ date > HorizonTime THEN plan.schedule
    ELSE LET step == ScheduleStep(plan, duration, date, amount)
         IN  FullSchedule([plan EXCEPT !.schedule = step.schedule], duration,
                          step.runningDate, step.anticipatedDebtAmount)

\* a debt reconciled by itself, from the debt, the pool and the payments as
\* they were fetched
ReconciledAlone(d0, pool, ps) ==
    IF d0.ID \notin DOMAIN pool THEN d0
    ELSE LET plan0 == [pool[d0.ID] EXCEPT
                          !.payments = PaymentsWithPlanID(ps, pool[d0.ID].ID)]
             f == paymentFrequencyAsDuration(plan0.InstallmentFrequency)
             plan1 == IF f.err THEN plan0
                      ELSE [plan0 EXCEPT !.schedule =
                               FullSchedule(plan0, f.d, plan0.startDate,
                                            plan0.AmountToPay)]
         IN  AfterSchedule([d0 EXCEPT !.paymentPlan = Ref(plan1)])

\* what main prints for three results that were all received, as the
\* results alone determine it
OutcomeOf(results) ==
    LET debts0 == IF results["debts"].err THEN NilMap ELSE results["debts"].val
        pool == results["plans"].val
        ps == results["payments"].val
    IN  IF results["plans"].err \/ results["payments"].err \/ Len(ps) = 0
        THEN [kind |-> "error", debts |-> NilMap]
        ELSE IF Cardinality(DOMAIN pool \ DOMAIN debts0) > 1
        THEN [kind |-> "error", debts |-> NilMap]
        ELSE [kind |-> "debts",
              debts |-> [id \in DOMAIN debts0 |-> ReconciledAlone(debts0[id], pool, ps)]]

Called(op) == ret.op = op /\ ~IsNil(testDebt)

----------------------------------------------------------------------------
(* C1: calculateRemainingAmount returns the base minus the payments of the  *)
(* debt's plan, rounded to 2 decimals; the base is the plan's amount_to_pay *)
(* when the debt has a plan whose amount_to_pay is not zero, and the debt's *)
(* amount otherwise.  The payments count as sumTotalPayments totals them,   *)
(* which is their arithmetic sum whenever their amounts are whole cents.    *)
C1_RemainingAmount ==
    Called("calculateRemainingAmount") =>
        LET d == Deref(testDebt)
            paid == IF HasPlan(d) THEN PlanOf(d).payments ELSE << >>
        IN  /\ ret.val = Round2(BaseAmount(d) - TotalPaid(d))
            /\ WholeCents(paid) => ret.val = Round2(BaseAmount(d) - ExactSum(paid))

\* a plan with a zero target, a debt of 1.000 and one payment of 0.500: 0.500
C1_Witness ==
    /\ Called("calculateRemainingAmount")
    /\ HasPlan(Deref(testDebt))
    /\ PlanOf(Deref(testDebt)).AmountToPay = 0
    /\ Deref(testDebt).Amount = 1000
    /\ Len(PlanOf(Deref(testDebt)).payments) = 1
    /\ PlanOf(Deref(testDebt)).payments[1].Amount = 500
    /\ ret.val = 500

(* C2: for an active debt with at least one scheduled payment, the payments *)
(* in ascending order of date, calculateNextPaymentDate returns the date of *)
(* the latest scheduled payment plus one cadence increment (7 days weekly,  *)
(* 14 days bi-weekly); unscheduled payments, more recent ones too, do not   *)
(* change the result.                                                      *)
C2_NextAfterLastScheduled ==
    Called("calculateNextPaymentDate") =>
        LET d == Deref(testDebt)
        IN  (Active(d) /\ ScheduledPayments(PlanOf(d)) # {}) =>
                LET plan == PlanOf(d)
                    last == SetMax({ DayOf(plan.payments[i].date) :
                                        i \in ScheduledPayments(plan) })
                IN  ret.val = << last + CadenceDays(plan) >>

\* a scheduled payment followed by a more recent unscheduled one
C2_Witness ==
    /\ Called("calculateNextPaymentDate")
    /\ Active(Deref(testDebt))
    /\ LET plan == PlanOf(Deref(testDebt))
       IN  /\ Len(plan.payments) = 2
           /\ plan.payments[1].scheduled
           /\ ~plan.payments[2].scheduled
           /\ plan.payments[2].date > plan.payments[1].date
           /\ ret.val = << DayOf(plan.payments[1].date) + CadenceDays(plan) >>

C4_TestExpectation ==
    Called("calculateNextPaymentDate") =>
        LET d == Deref(testDebt)
        IN  (Active(d) /\ Len(PlanOf(d).payments) > 0 /\ Recognized(PlanOf(d))) =>
                ret.val = << GridDay(PlanOf(d)) + CadenceDays(PlanOf(d)) >>

\* the debts whose reconciliation is complete
ReconciledDebts == { debts[id] : id \in (DOMAIN debts) \ pending }

(* C5: tagScheduledPayments sets a payment's scheduled flag if and only if  *)
(* the payment's date is a date of the plan's generated schedule; a payment *)
(* one day before or after a schedule date is unscheduled, whatever its     *)
(* amount.                                                                 *)
C5_TaggedIffOnSchedule ==
    \A d \in ReconciledDebts :
        HasPlan(d) =>
            \A i \in 1..Len(PlanOf(d).payments) :
                PlanOf(d).payments[i].scheduled
                    <=> (PlanOf(d).payments[i].date \in DOMAIN PlanOf(d).schedule)

\* a payment on a schedule date, and one of the installment amount a day late
C5_Witness ==
    \E d \in ReconciledDebts :
        /\ HasPlan(d)
        /\ Len(PlanOf(d).payments) = 2
        /\ PlanOf(d).payments[1].scheduled
        /\ ~PlanOf(d).payments[2].scheduled
        /\ PlanOf(d).payments[2].Amount = PlanOf(d).InstallmentAmount
        /\ (PlanOf(d).payments[2].date - HoursPerDay) \in DOMAIN PlanOf(d).schedule

\* the schedule of a plan is start, start + c, ... with the balances
\* target, target - installment, ...
ScheduleShape(plan) ==
    LET n == Cardinality(DOMAIN plan.schedule)
        c == CadenceDays(plan) * HoursPerDay
    IN  /\ DOMAIN plan.schedule = { plan.startDate + k * c : k \in 0..(n - 1) }
        /\ \A k \in 0..(n - 1) :
              plan.schedule[plan.startDate + k * c]
                  = plan.AmountToPay - k * plan.InstallmentAmount

\* the debts that carry a plan: the reconciled ones and the one in the loop
DebtsWithPlan ==
    { d \in ReconciledDebts \cup (IF IsNil(debt) THEN {} ELSE {Deref(debt)}) : HasPlan(d) }

(* C6: for a plan of recognized cadence c the dates of the schedule built   *)
(* by generatePaymentSchedule are start, start + c, start + 2c, ... without *)
(* gap or duplicate; the entry at start holds the target amount and the     *)
(* entry at start + k * c the target minus k installments.                 *)
C6_ScheduleDates ==
    \A d \in DebtsWithPlan : Recognized(PlanOf(d)) => ScheduleShape(PlanOf(d))

\* a finished bi-weekly schedule of three entries
C6_Witness ==
    \E d \in ReconciledDebts :
        /\ HasPlan(d)
        /\ CadenceDays(PlanOf(d)) = BiweeklyDays
        /\ Cardinality(DOMAIN PlanOf(d).schedule) = 3

\* the latest date of a schedule
LastDate(plan) == SetMax(DOMAIN plan.schedule)

(* C7: the schedule built by generatePaymentSchedule includes the terminal  *)
(* entry: its last entry has an anticipated balance at or below zero.       *)
C7_TerminalEntryIncluded ==
    \A d \in ReconciledDebts :
        (HasPlan(d) /\ DOMAIN PlanOf(d).schedule # {}) =>
            PlanOf(d).schedule[LastDate(PlanOf(d))] <= 0

(* C7 as amended: the schedule built by generatePaymentSchedule does not    *)
(* include the terminal entry: every entry has a positive anticipated       *)
(* balance, and the balance of the last entry less one installment is at    *)
(* or below zero.                                                          *)
C7_TerminalEntryExcluded ==
    \A d \in ReconciledDebts :
        HasPlan(d) =>
            /\ \A t \in DOMAIN PlanOf(d).schedule : PlanOf(d).schedule[t] > 0
            /\ DOMAIN PlanOf(d).schedule # {} =>
                  PlanOf(d).schedule[LastDate(PlanOf(d))]
                      - PlanOf(d).InstallmentAmount <= 0

\* a schedule whose last entry leaves exactly one installment to pay
C7_Witness ==
    \E d \in ReconciledDebts :
        /\ HasPlan(d)
        /\ DOMAIN PlanOf(d).schedule # {}
        /\ PlanOf(d).schedule[LastDate(PlanOf(d))] = PlanOf(d).InstallmentAmount

(* C8: generatePaymentSchedule terminates for every plan, a plan with a     *)
(* zero or negative installment amount and a positive target included:      *)
(* a run that is in its loop gets out of it.                               *)
C8_ScheduleTerminates == (pc = "generate") ~> (pc = "tag")

(* C9: isDebtPaidOff returns true if and only if the debt's remaining       *)
(* amount is zero or negative; an overpayment counts as paid off.           *)
C9_PaidOffIffNotPositive ==
    Called("isDebtPaidOff") =>
        (ret.val <=> Remaining(Deref(testDebt)) <= 0)

\* an overpaid debt
C9_Witness ==
    /\ Called("isDebtPaidOff")
    /\ ret.val = TRUE
    /\ HasPlan(Deref(testDebt))
    /\ Remaining(Deref(testDebt)) < 0

(* C10: after normalizeData, for every debt of the collection, with or      *)
(* without a plan and whatever is_in_payment_plan it was fetched with,      *)
(* InPaymentPlan is true if and only if the debt has a plan attached and    *)
(* its remaining amount is greater than zero.                              *)
C10_ActiveFlag ==
    pc = "returned" =>
        \A id \in DOMAIN debts : debts[id].InPaymentPlan <=> Active(debts[id])

(* C11: a next payment date is produced only for an active debt.  After     *)
(* normalizeData a debt without a plan, or whose remaining amount is zero   *)
(* or negative, has no NextPaymentDate, and calculateNextPaymentDate        *)
(* returns the empty string for it and stores nothing.                      *)
C11_NoDateUnlessActive ==
    /\ pc = "returned" =>
          \A id \in DOMAIN debts :
             ~Active(debts[id]) => IsNil(debts[id].NextPaymentDate)
    /\ (Called("calculateNextPaymentDate") /\ ~Active(Deref(testDebt))) =>
          /\ ret.val = EmptyString
          /\ IsNil(Deref(testDebt).NextPaymentDate)

\* the call with updateObject on a debt whose plan is paid off
C11_Witness ==
    /\ Called("calculateNextPaymentDate")
    /\ ret.updateObject
    /\ HasPlan(Deref(testDebt))
    /\ Remaining(Deref(testDebt)) <= 0
    /\ ret.val = EmptyString
    /\ IsNil(Deref(testDebt).NextPaymentDate)

(* C12: after normalizeData every debt of the collection, a debt without a  *)
(* plan too, has in RemainingAmount the value calculateRemainingAmount      *)
(* yields for it; for a debt without a plan that is the debt's amount.      *)
C12_RemainingStored ==
    pc = "returned" =>
        \A id \in DOMAIN debts :
           /\ debts[id].RemainingAmount = calculateRemainingAmount(debts[id], FALSE).ret
           /\ ~HasPlan(debts[id]) => debts[id].RemainingAmount = debts[id].Amount

(* C18: sumTotalPayments is the exact sum of the amounts of the attached    *)
(* payments, rounded to 2 decimals once, after the summation, and not the   *)
(* running total rounded after each term.                                   *)
C18_RoundedOnce ==
    Called("sumTotalPayments") =>
        LET d == Deref(testDebt)
            paid == IF HasPlan(d) THEN PlanOf(d).payments ELSE << >>
        IN  ret.val = Round2(ExactSum(paid))

(* C19: a debt's remaining amount is computed at most once.  Once a          *)
(* computation has stored it, a call of calculateRemainingAmount or of      *)
(* isDebtPaidOff answers from the stored value and leaves it as it is, a    *)
(* change to the plan's payments since then not being reflected.            *)
C19_ComputedOnce ==
    [][ (~IsNil(testDebt) /\ ~IsNil(testDebt')
            /\ Deref(testDebt).remainingAmountCalculated) =>
          LET stored == Deref(testDebt).RemainingAmount
          IN  /\ ret'.op = "calculateRemainingAmount" =>
                    /\ ret'.val = stored
                    /\ Deref(testDebt').RemainingAmount = stored
              /\ ret'.op = "isDebtPaidOff" =>
                    /\ ret'.val = (stored <= 0)
                    /\ Deref(testDebt').RemainingAmount = stored ]_vars

(* C19, as the code has it: isDebtPaidOff computes the remaining amount at  *)
(* most once, and once the amount is stored it answers from the stored      *)
(* value and writes nothing, a later change to the payments not being       *)
(* reflected.  calculateRemainingAmount computes on every call, from the    *)
(* payments as they are at the call, so that its calls return the same      *)
(* value as long as the payments do not change; it stores the value when    *)
(* updateObject is set and writes nothing otherwise.                        *)
C19_PaidOffCachedAmountComputed ==
    [][ (~IsNil(testDebt) /\ ~IsNil(testDebt')) =>
          /\ (ret'.op = "isDebtPaidOff"
                 /\ Deref(testDebt).remainingAmountCalculated) =>
                /\ ret'.val = (Deref(testDebt).RemainingAmount <= 0)
                /\ testDebt' = testDebt
          /\ ret'.op = "calculateRemainingAmount" =>
                /\ ret'.val = Remaining(Deref(testDebt))
                /\ IF ret'.updateObject
                   THEN /\ Deref(testDebt').RemainingAmount = ret'.val
                        /\ Deref(testDebt').remainingAmountCalculated
                   ELSE testDebt' = testDebt ]_vars

\* a payment added after the amount was stored: calculateRemainingAmount
\* returns the new amount, and the stored one still is the old
C19_Witness ==
    /\ Called("calculateRemainingAmount")
    /\ ~ret.updateObject
    /\ Deref(testDebt).remainingAmountCalculated
    /\ ret.val # Deref(testDebt).RemainingAmount
    /\ isDebtPaidOff(Deref(testDebt)).ret # (ret.val <= 0)

(* C13: if one of the three collections is missing when the coordinator     *)
(* stops waiting, its fetch having reported an error or the timeout having  *)
(* come before its result, main prints the error and no debts: what the     *)
(* run prints is the enriched collection or one error.                      *)
C13_MissingAborts ==
    pc = "exit" =>
        /\ output.kind \in {"error", "debts"}
        /\ (\E t \in Fetches : Missing(t)) => output.kind = "error"

(* C14: when normalizeData runs, the results of all three fetches have been *)
(* received, and each of them brought its collection: the reconciliation    *)
(* does not start on a part of the collections.                             *)
C14_AllReceivedFirst ==
    InNormalizeData => \A t \in Fetches : tasks[t] = "done" /\ ~fetched[t].err

(* C15: normalizeData, called on the three collections, returns the orphan  *)
(* error whenever a plan is left in the pool after all debts were           *)
(* processed, one plan too.                                                 *)
C15_AnyOrphanIsError ==
    (pc = "returned" /\ Gathered) => (Orphans # {} => err)

(* C16: orphaned plans are not fatal: when normalizeData, called on the     *)
(* three collections, has reported them, main still prints the joined       *)
(* debts, and no orphaned plan is among them.                               *)
C16_OrphansNonFatal ==
    (pc = "exit" /\ Gathered /\ err) =>
        /\ output.kind = "debts"
        /\ output.debts = debts
        /\ \A id \in DOMAIN output.debts :
              HasPlan(output.debts[id]) =>
                  PlanOf(output.debts[id]).DebtID \notin Orphans

(* C17: a plan with an unrecognized installment_frequency does not make     *)
(* normalizeData return an error, the debts of the other plans are          *)
(* reconciled, and its own debt's next payment date and remaining amount    *)
(* are left unset.                                                          *)
C17_UnrecognizedFrequencyAbsorbed ==
    (pc = "returned" /\ Gathered) =>
        /\ err => Cardinality(Orphans) > 1
        /\ \A id \in DOMAIN debts :
              HasPlan(debts[id]) =>
                  IF Recognized(PlanOf(debts[id]))
                  THEN /\ debts[id].remainingAmountCalculated
                       /\ debts[id].RemainingAmount = Remaining(debts[id])
                       /\ debts[id].InPaymentPlan = Active(debts[id])
                  ELSE /\ IsNil(debts[id].NextPaymentDate)
                       /\ ~debts[id].remainingAmountCalculated
                       /\ debts[id].RemainingAmount = 0

(* C20: normalizeData attaches to each debt the plan of the pool whose      *)
(* debt_id is the debt's id and takes it out of the pool, gives the plan    *)
(* the payments that carry its id, all of them, in the order of the list,   *)
(* and no others, and leaves a debt without such a plan without a plan;     *)
(* when it returns, the pool holds the plans whose debt_id is no debt's.    *)
C20_Join ==
    pc = "returned" =>
        LET pool == fetched["plans"].val
        IN  /\ \A id \in DOMAIN debts :
                  IF id \in DOMAIN pool
                  THEN /\ HasPlan(debts[id])
                       /\ PlanOf(debts[id]).ID = pool[id].ID
                       /\ PlanOf(debts[id]).DebtID = debts[id].ID
                       /\ Untagged(PlanOf(debts[id]).payments)
                             = PaymentsWithPlanID(payments, pool[id].ID)
                  ELSE ~HasPlan(debts[id])
            /\ DOMAIN paymentPlans = DOMAIN pool \ DOMAIN debts
            /\ \A k \in DOMAIN paymentPlans : paymentPlans[k] = pool[k]

\* two debts, one with its plan and both payments of the plan, one without
\* a plan, a payment of another plan, and a plan left in the pool
C20_Witness ==
    /\ pc = "returned"
    /\ DOMAIN debts = {1, 2}
    /\ HasPlan(debts[1])
    /\ Len(PlanOf(debts[1]).payments) = 2
    /\ Len(payments) = 3
    /\ ~HasPlan(debts[2])
    /\ DOMAIN paymentPlans = {3}

(* C23: paymentFrequencyAsDuration returns 7 days, 168 hours, for the label *)
(* "weekly" and 14 days, 336 hours, for "bi_weekly", in any letter case,    *)
(* and for every other label an error and no duration.                      *)
C23_FrequencyAsDuration ==
    ret.op = "paymentFrequencyAsDuration" =>
        LET label == ret.val.freq
        IN  IF label \in {"weekly", "WEEKLY", "Weekly"}
            THEN ~ret.val.err /\ ret.val.d = 168
            ELSE IF label \in {"bi_weekly", "BI_WEEKLY", "Bi_Weekly"}
            THEN ~ret.val.err /\ ret.val.d = 336
            ELSE ret.val.err /\ ret.val.d = 0

\* the label in capitals is converted
C23_Witness ==
    /\ ret.op = "paymentFrequencyAsDuration"
    /\ ret.val.freq = "BI_WEEKLY"
    /\ ret.val.d = 336

(* C28: a call of calculateRemainingAmount or of calculateNextPaymentDate   *)
(* with updateObject false leaves the debt's RemainingAmount, its           *)
(* remainingAmountCalculated flag and its NextPaymentDate as they were,     *)
(* whether or not the remaining amount was computed before.                 *)
C28_NoUpdateLeavesDebt ==
    [][ (~IsNil(testDebt) /\ ~IsNil(testDebt')
            /\ ret'.op \in {"calculateRemainingAmount", "calculateNextPaymentDate"}
            /\ ~ret'.updateObject) =>
          /\ Deref(testDebt').RemainingAmount = Deref(testDebt).RemainingAmount
          /\ Deref(testDebt').remainingAmountCalculated
                = Deref(testDebt).remainingAmountCalculated
          /\ Deref(testDebt').NextPaymentDate = Deref(testDebt).NextPaymentDate ]_vars

C21_PaymentAttachedOrReported ==
    (pc = "returned" /\ Gathered) =>
        \A i \in 1..Len(payments) :
           \/ Cardinality(AttachedTo(payments[i])) = 1
           \/ Cardinality(AttachedTo(payments[i])) = 0 /\ err

(* C27: when all three fetches succeed and the payments endpoint delivers   *)
(* an empty array, populateDebtHierarchy takes the payments for missing:    *)
(* it returns the error of the gathering and normalizeData is not called.   *)
(* An empty array of debts or of plans from a fetch that succeeded is not   *)
(* taken for missing: with payments delivered normalizeData is called.      *)
C27_EmptyPaymentsMissing ==
    Gathered =>
        IF Len(fetched["payments"].val) = 0
        THEN /\ ~InNormalizeData
             /\ ~err
             /\ pc = "exit" => output.kind = "error"
        ELSE pc = "exit" => (output.kind = "debts" \/ err)

\* debts and plans delivered, and no payment: the run ends with the error
C27_Witness ==
    /\ pc = "exit"
    /\ Gathered
    /\ Len(fetched["payments"].val) = 0
    /\ DOMAIN fetched["debts"].val = {1, 2}
    /\ DOMAIN fetched["plans"].val = {1}
    /\ output.kind = "error"

(* C29: what normalizeData leaves, for each debt its plan, the plan's       *)
(* payments and their scheduled flags, RemainingAmount, InPaymentPlan and   *)
(* NextPaymentDate, and the error it returns, does not depend on the order  *)
(* in which the range over the debts map produces the debts: each debt is   *)
(* what its reconciliation by itself gives, and the error is that of the    *)
(* plans no debt has taken.                                                 *)
C29_OrderIndependent ==
    pc = "returned" =>
        LET pool == fetched["plans"].val
        IN  /\ \A id \in DOMAIN debts :
                  debts[id] = ReconciledAlone(fetched["debts"].val[id], pool, payments)
            /\ err = (Cardinality(DOMAIN pool \ DOMAIN debts) > 1)

\* two debts with a plan and payments each, debt 1 being the second that
\* the range produced
C29_Witness ==
    /\ pc = "returned"
    /\ DOMAIN debts = {1, 2}
    /\ debtId = 1
    /\ HasPlan(debts[1]) /\ Len(PlanOf(debts[1]).payments) = 2
    /\ HasPlan(debts[2]) /\ Len(PlanOf(debts[2]).payments) = 1
    /\ DOMAIN paymentPlans = {3, 4}
    /\ err

(* C25: when no timeout fires, the outcome of populateDebtHierarchy, the    *)
(* error or the enriched debts, is the same for every order in which the    *)
(* three results arrive: the three results determine it.                    *)
C25_ArrivalOrderIrrelevant ==
    (pc = "exit" /\ ~timedOut) => output = OutcomeOf(fetched)

\* a run without a timeout that printed two debts
C25_Witness ==
    /\ pc = "exit"
    /\ ~timedOut
    /\ waitCount = NumFetches
    /\ output.kind = "debts"
    /\ DOMAIN output.debts = {1, 2}
    /\ HasPlan(output.debts[1])

C26_InFlightTasksComplete ==
    (pc = "exit" /\ timedOut) =>
        \A t \in Fetches : tasks[t] = "done"

(* C22: the wait of the coordinator is bounded by one timeout for all of    *)
(* it: populateDebtHierarchy stops waiting no later than 240 seconds after  *)
(* it began to wait, however many results have arrived in between.          *)
C22_OverallTimeout ==
    elapsed <= TimerSeconds

====
